---- MODULE Spec2Model ----
(***************************************************************************)
(* MusicStream: the per-chat queue (queue_manager.py), the simulated       *)
(* playback backend with its playback threads (music_player.py) and the    *)
(* command handlers that drive both (bot.py).                              *)
(*                                                                         *)
(* Scheduling.  bot.py:27 builds the Application with its defaults, so     *)
(* updates are dispatched one at a time: a command handler runs to its end *)
(* before the next command's handler starts (Dispatch below).  A handler   *)
(* is split at the awaits that really suspend (the Telegram replies and    *)
(* the fetch); the awaits of MusicPlayer's coroutines never suspend, so    *)
(* play_audio and stop_audio run inside the segment that calls them.  The  *)
(* playback threads are OS threads: their steps interleave with every      *)
(* segment boundary.                                                       *)
(***************************************************************************)
EXTENDS Integers, Sequences, FiniteSets, Bags, TLC

\* Config.MAX_QUEUE_SIZE is read from the environment (config.py:30); the
\* model runs with a small value.
MAX_QUEUE_SIZE == 2

\* Playback threads alive at the same time (over all chats).
MaxThreads == 2

Chats == {1}

\* The dicts search_and_download returns (youtube_downloader.py:238-244),
\* reduced to the keys the queue and the player read.  The media path is
\* derived from the title (youtube_downloader.py:130-131).
Song(t) == [title |-> t, url |-> "u" \o t, file_path |-> "f" \o t]

Songs == {Song("A"), Song("B")}

NoSong == [title |-> "", url |-> "", file_path |-> ""]

NoFile == ""

VARIABLES
    queues,          \* QueueManager.queues: chat -> list of song dicts
    active_streams,  \* MusicPlayer.active_streams: the keys (values are True)
    paused_streams,  \* MusicPlayer.paused_streams: dict chat -> bool
    threads,         \* the simulate_playback threads that are alive
    pending,         \* command handlers suspended at an await
    started,         \* chat -> media path of the last successful play_audio
    notifications,   \* completions (chat, media path) not yet handed to the bot
    last             \* the step just taken (observation only)

vars == <<queues, active_streams, paused_streams, threads, pending, started,
          notifications, last>>

----------------------------------------------------------------------------
\* queue_manager.py

\* Mutant of add_to_queue: the position returned is always 1.
add_to_queue_PositionOne(q, song_info) ==
    IF Len(q) >= MAX_QUEUE_SIZE
    THEN [queue |-> q, position |-> -1]
    ELSE [queue |-> Append(q, song_info), position |-> 1]

\* Mutant of add_to_queue: the song is inserted in front of the list.
add_to_queue_AtHead(q, song_info) ==
    IF Len(q) >= MAX_QUEUE_SIZE
    THEN [queue |-> q, position |-> -1]
    ELSE [queue |-> <<song_info>> \o q, position |-> Len(q) + 1]

\* Mutant of add_to_queue: the limit is tested with > instead of >=.
add_to_queue_OffByOne(q, song_info) ==
    IF Len(q) > MAX_QUEUE_SIZE
    THEN [queue |-> q, position |-> -1]
    ELSE [queue |-> Append(q, song_info), position |-> Len(q) + 1]

\* add_to_queue: the new list and the returned position (-1 when full).
add_to_queue(q, song_info) ==
    IF Len(q) >= MAX_QUEUE_SIZE
    THEN [queue |-> q, position |-> -1]
    ELSE [queue |-> Append(q, song_info), position |-> Len(q) + 1]

SameSong(a, b) == a.title = b.title /\ a.url = b.url

\* Mutant of remove_from_queue: every element with the same title and url
\* is removed.
remove_from_queue_AllMatches(q, song_info) ==
    [queue |-> SelectSeq(q, LAMBDA s : ~SameSong(s, song_info)),
     removed |-> \E i \in 1..Len(q) : SameSong(q[i], song_info)]

\* Mutant of remove_from_queue: when the song is found, the head is popped.
remove_from_queue_HeadOnly(q, song_info) ==
    IF \A i \in 1..Len(q) : ~SameSong(q[i], song_info)
    THEN [queue |-> q, removed |-> FALSE]
    ELSE [queue |-> Tail(q), removed |-> TRUE]

\* remove_from_queue: pops the first element with the same title and url.
remove_from_queue(q, song_info) ==
    LET hits == {i \in 1..Len(q) : SameSong(q[i], song_info)} IN
    IF hits = {}
    THEN [queue |-> q, removed |-> FALSE]
    ELSE LET i == CHOOSE k \in hits : \A m \in hits : k <= m IN
         [queue |-> SubSeq(q, 1, i - 1) \o SubSeq(q, i + 1, Len(q)),
          removed |-> TRUE]

\* Mutant of get_current_song: the last element is taken for the current
\* one.
get_current_song_Last(q) == IF q /= <<>> THEN q[Len(q)] ELSE NoSong

\* get_current_song: queue[0] or None.
get_current_song(q) == IF q /= <<>> THEN q[1] ELSE NoSong

clear_queue(q) == <<>>

\* list.pop(i) and list.insert(i, x) for an index inside the list, 1-based.
ListPop(q, i) == SubSeq(q, 1, i - 1) \o SubSeq(q, i + 1, Len(q))

ListInsert(q, i, x) == SubSeq(q, 1, i - 1) \o <<x>> \o SubSeq(q, i, Len(q))

\* Mutant of move_song: only the upper ends of the range are tested; a
\* position below 1 counts from the end of the list, as a negative index
\* does.
move_song_NoLowerBound(q, from_position, to_position) ==
    IF q = <<>> \/ from_position > Len(q) \/ to_position > Len(q)
    THEN [queue |-> q, moved |-> FALSE]
    ELSE LET from == IF from_position < 1 THEN Len(q) ELSE from_position
             to == IF to_position < 1 THEN 1 ELSE to_position
         IN  [queue |-> ListInsert(ListPop(q, from), to, q[from]),
              moved |-> TRUE]

\* Mutant of move_song: the insertion index is corrected for the pop when
\* the song moves towards the end.
move_song_ShiftedInsert(q, from_position, to_position) ==
    IF ~(/\ 1 <= from_position /\ from_position <= Len(q)
         /\ 1 <= to_position /\ to_position <= Len(q))
    THEN [queue |-> q, moved |-> FALSE]
    ELSE LET to == IF from_position < to_position THEN to_position - 1
                   ELSE to_position
         IN  [queue |-> ListInsert(ListPop(q, from_position), to,
                                   q[from_position]),
              moved |-> TRUE]

\* move_song: both 1-based positions must lie in the list; the song is
\* popped from the one and inserted at the other.
move_song(q, from_position, to_position) ==
    IF ~(/\ 1 <= from_position /\ from_position <= Len(q)
         /\ 1 <= to_position /\ to_position <= Len(q))
    THEN [queue |-> q, moved |-> FALSE]
    ELSE [queue |-> ListInsert(ListPop(q, from_position), to_position,
                               q[from_position]),
          moved |-> TRUE]

\* The orders random.shuffle can leave a list in: all of them.
Shuffles(s) ==
    {[i \in 1..Len(s) |-> s[f[i]]] : f \in Permutations(1..Len(s))}

\* Mutant of shuffle_queue: the whole list is shuffled whatever
\* preserve_current says.
shuffle_queue_WholeList(q, preserve_current) ==
    IF Len(q) <= 1
    THEN {[queue |-> q, shuffled |-> FALSE]}
    ELSE {[queue |-> s, shuffled |-> TRUE] : s \in Shuffles(q)}

\* shuffle_queue: the outcomes it can have.  With preserve_current the head
\* stays and the rest is shuffled; without it the whole list is shuffled.
shuffle_queue(q, preserve_current) ==
    IF Len(q) <= 1
    THEN {[queue |-> q, shuffled |-> FALSE]}
    ELSE IF preserve_current
    THEN {[queue |-> <<q[1]>> \o s, shuffled |-> TRUE] :
              s \in Shuffles(Tail(q))}
    ELSE {[queue |-> s, shuffled |-> TRUE] : s \in Shuffles(q)}

----------------------------------------------------------------------------
\* music_player.py

\* A simulate_playback thread: the chat_id and file_path of its closure, the
\* place it has reached, and (observation) whether a later stop_audio or
\* play_audio for its chat has happened since it was started.
Thread(c, file_path, pc, stale) ==
    [chat |-> c, file_path |-> file_path, pc |-> pc, stale |-> stale]

Copies(th, t) == IF t \in DOMAIN th THEN th[t] ELSE 0

paused_get(paused, c) == IF c \in DOMAIN paused THEN paused[c] ELSE FALSE

DictDel(d, c) == [k \in DOMAIN d \ {c} |-> d[k]]

DictSet(d, c, v) == [k \in DOMAIN d \cup {c} |-> IF k = c THEN v ELSE d[k]]

is_playing(c) == c \in active_streams /\ ~paused_get(paused_streams, c)

is_paused(c) == c \in active_streams /\ paused_get(paused_streams, c)

PlaybackState(c) ==
    IF is_playing(c) THEN "Playing"
    ELSE IF is_paused(c) THEN "Paused"
    ELSE "Idle"

\* The backend as a value, so that a handler can chain calls on it.
Backend == [active |-> active_streams, paused |-> paused_streams,
            threads |-> threads, started |-> started]

\* Observation: the threads of chat c now belong to an earlier start.
MarkStale(th, c) ==
    LET mark(t) == IF t.chat = c THEN [t EXCEPT !.stale = TRUE] ELSE t IN
    [t \in {mark(u) : u \in DOMAIN th} |->
        IF t.chat = c
        THEN Copies(th, t) + Copies(th, [t EXCEPT !.stale = FALSE])
        ELSE th[t]]

FreeSlot(th) == BagCardinality(th) < MaxThreads

\* threading.Thread(target=simulate_playback).start()
Spawn(th, c, file_path) ==
    th (+) SetToBag({Thread(c, file_path, "loop", FALSE)})

\* One thread t of th moves on to u.
Move(th, t, u) == (th (-) SetToBag({t})) (+) SetToBag({u})

\* The thread t of th returns.
Exit(th, t) == th (-) SetToBag({t})

\* Mutant of stop_audio: the two dicts are emptied instead of losing the
\* chat's key.
stop_audio_AllChats(b, c) ==
    IF c \in b.active
    THEN [b EXCEPT !.active = {},
                   !.paused = <<>>,
                   !.threads = MarkStale(b.threads, c)]
    ELSE b

\* stop_audio: drops the chat's flags when it is active; the playback thread
\* is not joined, only its reference is deleted.
stop_audio(b, c) ==
    IF c \in b.active
    THEN [b EXCEPT !.active = b.active \ {c},
                   !.paused = DictDel(b.paused, c),
                   !.threads = MarkStale(b.threads, c)]
    ELSE b

\* play_audio with os.path.exists(file_path) = exists; the return value is
\* exists.
play_audio(b, c, file_path, exists) ==
    IF ~exists THEN b
    ELSE LET s == stop_audio(b, c) IN
         [active |-> s.active \cup {c},
          paused |-> DictSet(s.paused, c, FALSE),
          threads |-> Spawn(MarkStale(s.threads, c), c, file_path),
          started |-> [s.started EXCEPT ![c] = file_path]]

SetBackend(b) ==
    /\ active_streams' = b.active
    /\ paused_streams' = b.paused
    /\ threads' = b.threads
    /\ started' = b.started

----------------------------------------------------------------------------
\* Observation of the step taken.

\* op: the step; ok: what it returned or found; pos: the queue position or
\* length it saw; was: the playback state it started from; file: the media
\* path it was about; stale: it was a step of a thread of an earlier start;
\* after_stop: when the step before it was /stop for the same chat, the
\* playback state that /stop started from, and "no" otherwise.
Step(op, c, ok, pos, was, stale, file) ==
    [op |-> op, chat |-> c, ok |-> ok, pos |-> pos, was |-> was,
     stale |-> stale, file |-> file,
     after_stop |-> IF last.op = "stop" /\ last.chat = c THEN last.was
                    ELSE "no"]

Init ==
    /\ queues = [c \in Chats |-> <<>>]
    /\ active_streams = {}
    /\ paused_streams = <<>>
    /\ threads = EmptyBag
    /\ pending = {}
    /\ started = [c \in Chats |-> NoFile]
    /\ notifications = {}
    /\ last = [op |-> "init", chat |-> 0, ok |-> TRUE, pos |-> 0,
               was |-> "Idle", stale |-> FALSE, file |-> NoFile,
               after_stop |-> "no"]

\* Mutant of Dispatch: updates are handled concurrently, a handler starts
\* whenever its update arrives.
Dispatch_Concurrent == TRUE

\* One update at a time: no handler starts while another is suspended.
Dispatch == pending = {}

Suspended(cmd, c) == {p \in pending : p.cmd = cmd /\ p.chat = c}

----------------------------------------------------------------------------
\* simulate_playback (music_player.py:54-77)

\* The while loop ends (the duration has elapsed, or the chat is not active,
\* or it is paused) and the if that follows it is evaluated: the thread goes
\* on to clean up when the chat is active and not paused, and returns
\* otherwise.  The loop can end at any moment, so the two reads are one step.
ThreadLoopEnds(t) ==
    /\ t.pc = "loop"
    /\ threads' = IF is_playing(t.chat)
                  THEN Move(threads, t, [t EXCEPT !.pc = "pop_active"])
                  ELSE Exit(threads, t)
    /\ last' = Step("loop_ends", t.chat, is_playing(t.chat), 0,
                    PlaybackState(t.chat), t.stale, t.file_path)
    /\ UNCHANGED <<queues, active_streams, paused_streams, pending, started,
                   notifications>>

\* self.active_streams.pop(chat_id, None)
ThreadPopActive(t) ==
    /\ t.pc = "pop_active"
    /\ active_streams' = active_streams \ {t.chat}
    /\ threads' = Move(threads, t, [t EXCEPT !.pc = "pop_paused"])
    /\ last' = Step("finish_active", t.chat, t.chat \in active_streams, 0,
                    PlaybackState(t.chat), t.stale, t.file_path)
    /\ UNCHANGED <<queues, paused_streams, pending, started, notifications>>

\* self.paused_streams.pop(chat_id, None); the thread ends.  Nothing in
\* simulate_playback tells the bot: notify is FALSE in the program.
ThreadPopPaused(t, notify) ==
    /\ t.pc = "pop_paused"
    /\ paused_streams' = DictDel(paused_streams, t.chat)
    /\ threads' = Exit(threads, t)
    /\ notifications' =
           IF notify
           THEN notifications
                    \cup {[chat |-> t.chat, file_path |-> t.file_path]}
           ELSE notifications
    /\ last' = Step("finish", t.chat, t.chat \in DOMAIN paused_streams, 0,
                    PlaybackState(t.chat), t.stale, t.file_path)
    /\ UNCHANGED <<queues, active_streams, pending, started>>

----------------------------------------------------------------------------
\* Command handlers (bot.py:68-156)

\* /play without arguments (bot.py:74-76).
PlayNoArgs(c) ==
    /\ Dispatch
    /\ last' = Step("play_usage", c, FALSE, 0, PlaybackState(c), FALSE, NoFile)
    /\ UNCHANGED <<queues, active_streams, paused_streams, threads, pending,
                   started, notifications>>

\* Mutant of PlayNoResult: add_to_queue is called before the result is
\* tested.
PlayNoResult_EnqueueFirst(c) ==
    /\ Dispatch
    /\ queues' = [queues EXCEPT ![c] = add_to_queue(queues[c], NoSong).queue]
    /\ last' = Step("play_none", c, FALSE, 0, PlaybackState(c), FALSE, NoFile)
    /\ UNCHANGED <<active_streams, paused_streams, threads, pending,
                   started, notifications>>

\* /play whose search_and_download returns None (bot.py:84-88).
PlayNoResult(c) ==
    /\ Dispatch
    /\ last' = Step("play_none", c, FALSE, 0, PlaybackState(c), FALSE, NoFile)
    /\ UNCHANGED <<queues, active_streams, paused_streams, threads, pending,
                   started, notifications>>

\* /play up to the reply that follows add_to_queue (bot.py:84-95, 101-102):
\* at position 1 the handler suspends in edit_text before it calls
\* play_audio; at any other position, -1 included, it reports the track as
\* added and ends.
PlayEnqueue(c, result) ==
    LET r == add_to_queue(queues[c], result) IN
    /\ Dispatch
    /\ queues' = [queues EXCEPT ![c] = r.queue]
    /\ pending' = IF r.position = 1
                  THEN {[cmd |-> "play_start", chat |-> c, song |-> result,
                         was |-> PlaybackState(c)]}
                  ELSE {}
    /\ last' = Step("play_enqueue", c, r.position /= -1, r.position,
                    PlaybackState(c), FALSE, NoFile)
    /\ UNCHANGED <<active_streams, paused_streams, threads, started,
                   notifications>>

\* The message /play ends with once add_to_queue has returned and nothing
\* fails afterwards (bot.py:93-102): the else branch takes every position
\* other than 1.
play_reply(queue_position, success) ==
    IF queue_position = 1
    THEN IF success THEN "now_playing" ELSE "failed_to_join"
    ELSE "added_to_queue"

\* bot.py:96-99: play_audio on the enqueued track; on failure the handler
\* suspends in the failure reply before it rolls back.
PlayStart(c, exists) ==
    \E p \in Suspended("play_start", c) :
        LET b == play_audio(Backend, c, p.song.file_path, exists) IN
        /\ exists => FreeSlot(stop_audio(Backend, c).threads)
        /\ SetBackend(b)
        /\ pending' = IF exists THEN {}
                      ELSE {[p EXCEPT !.cmd = "play_rollback"]}
        /\ last' = Step("play_start", c, exists, 1, PlaybackState(c), FALSE,
                        p.song.file_path)
        /\ UNCHANGED <<queues, notifications>>

\* bot.py:95 raises (the edit of the search message fails): the except
\* clause replies and the handler ends; play_audio is never called.
PlayStartError(c) ==
    \E p \in Suspended("play_start", c) :
        /\ pending' = {}
        /\ last' = Step("play_error", c, FALSE, 1, PlaybackState(c), FALSE,
                        NoFile)
        /\ UNCHANGED <<queues, active_streams, paused_streams, threads,
                       started, notifications>>

\* bot.py:100: the rollback after a failed start.
PlayRollback(c) ==
    \E p \in Suspended("play_rollback", c) :
        /\ queues' = [queues EXCEPT
                         ![c] = remove_from_queue(queues[c], p.song).queue]
        /\ pending' = {}
        /\ last' = Step("play_rollback", c,
                        remove_from_queue(queues[c], p.song).removed, 1,
                        PlaybackState(c), FALSE, NoFile)
        /\ UNCHANGED <<active_streams, paused_streams, threads, started,
                       notifications>>

\* bot.py:99 raises: the except clause runs instead of the rollback.
PlayRollbackError(c) ==
    \E p \in Suspended("play_rollback", c) :
        /\ pending' = {}
        /\ last' = Step("play_rollback_error", c, FALSE, 1, PlaybackState(c),
                        FALSE, NoFile)
        /\ UNCHANGED <<queues, active_streams, paused_streams, threads,
                       started, notifications>>

\* Mutant of pause_audio: the flag is set whatever the chat's state is.
pause_audio_NoCheck(b, c) ==
    [b EXCEPT !.paused = DictSet(b.paused, c, TRUE)]

\* pause_audio (music_player.py:110-130) under /pause (bot.py:108-115).
pause_audio(b, c) ==
    IF c \notin b.active \/ paused_get(b.paused, c)
    THEN b
    ELSE [b EXCEPT !.paused = DictSet(b.paused, c, TRUE)]

Pause(c) ==
    /\ Dispatch
    /\ SetBackend(pause_audio(Backend, c))
    /\ last' = Step("pause", c, is_playing(c), 0, PlaybackState(c), FALSE,
                    NoFile)
    /\ UNCHANGED <<queues, pending, notifications>>

\* resume_audio (music_player.py:132-152) under /resume (bot.py:117-124).
resume_audio(b, c) ==
    IF c \notin b.active \/ ~paused_get(b.paused, c)
    THEN b
    ELSE [b EXCEPT !.paused = DictSet(b.paused, c, FALSE)]

Resume(c) ==
    /\ Dispatch
    /\ SetBackend(resume_audio(Backend, c))
    /\ last' = Step("resume", c, is_paused(c), 0, PlaybackState(c), FALSE,
                    NoFile)
    /\ UNCHANGED <<queues, pending, notifications>>

\* Mutant of stop_command: the queue is cleared, the playback is left alone.
stop_command_QueueOnly(b, q, c) ==
    [backend |-> b, queue |-> clear_queue(q)]

\* Mutant of stop_command: the playback is stopped, the queue is kept.
stop_command_NoClear(b, q, c) ==
    [backend |-> stop_audio(b, c), queue |-> q]

\* /stop (bot.py:126-136): stop_audio, then clear_queue.
stop_command(b, q, c) ==
    [backend |-> stop_audio(b, c), queue |-> clear_queue(q)]

Stop(c) ==
    LET r == stop_command(Backend, queues[c], c) IN
    /\ Dispatch
    /\ SetBackend(r.backend)
    /\ queues' = [queues EXCEPT ![c] = r.queue]
    /\ last' = Step("stop", c, TRUE, 0, PlaybackState(c), FALSE, NoFile)
    /\ UNCHANGED <<pending, notifications>>

\* /skip up to its reply (bot.py:142-152, 154-156): the head is removed; with
\* a next song the handler suspends in reply_text before play_audio, without
\* one it calls stop_audio.  The playback state is never consulted.
skip_command(b, q, c) ==
    LET current_song == get_current_song(q)
        rest == remove_from_queue(q, current_song).queue
        next_song == get_current_song(rest)
    IN  IF current_song = NoSong
        THEN [backend |-> b, queue |-> q, next |-> NoSong, skipped |-> FALSE]
        ELSE IF next_song /= NoSong
        THEN [backend |-> b, queue |-> rest, next |-> next_song,
              skipped |-> TRUE]
        ELSE [backend |-> stop_audio(b, c), queue |-> rest, next |-> NoSong,
              skipped |-> TRUE]

Skip(c) ==
    LET r == skip_command(Backend, queues[c], c) IN
    /\ Dispatch
    /\ SetBackend(r.backend)
    /\ queues' = [queues EXCEPT ![c] = r.queue]
    /\ pending' = IF r.next /= NoSong
                  THEN {[cmd |-> "skip_start", chat |-> c, song |-> r.next,
                         was |-> PlaybackState(c)]}
                  ELSE {}
    /\ last' = Step("skip", c, r.skipped, Len(queues[c]), PlaybackState(c),
                    FALSE, NoFile)
    /\ UNCHANGED notifications

\* bot.py:153: play_audio on the next song; its result is not looked at.
SkipStart(c, exists) ==
    \E p \in Suspended("skip_start", c) :
        /\ exists => FreeSlot(stop_audio(Backend, c).threads)
        /\ SetBackend(play_audio(Backend, c, p.song.file_path, exists))
        /\ pending' = {}
        /\ last' = Step("skip_start", c, exists, 0, p.was, FALSE,
                        p.song.file_path)
        /\ UNCHANGED <<queues, notifications>>

\* bot.py:152 raises: skip_command has no except clause, the handler ends
\* before play_audio.
SkipStartError(c) ==
    \E p \in Suspended("skip_start", c) :
        /\ pending' = {}
        /\ last' = Step("skip_error", c, FALSE, 0, p.was, FALSE,
                        p.song.file_path)
        /\ UNCHANGED <<queues, active_streams, paused_streams, threads,
                       started, notifications>>

----------------------------------------------------------------------------
\* _handle_song_finished (bot.py:191-204).  It has no caller in the program;
\* SpecFinished delivers the completions of the playback threads to it.
handle_song_finished(b, q, c, exists) ==
    LET current_song == get_current_song(q)
        rest == IF current_song /= NoSong
                THEN remove_from_queue(q, current_song).queue ELSE q
        next_song == get_current_song(rest)
    IN  IF next_song /= NoSong
        THEN [backend |-> play_audio(b, c, next_song.file_path, exists),
              queue |-> rest]
        ELSE [backend |-> stop_audio(b, c), queue |-> rest]

HandleSongFinished(n, exists) ==
    LET c == n.chat
        r == handle_song_finished(Backend, queues[c], c, exists)
    IN  /\ n \in notifications
        /\ (exists /\ Len(queues[c]) > 1)
               => FreeSlot(stop_audio(Backend, c).threads)
        /\ Len(queues[c]) <= 1 => exists
        /\ notifications' = notifications \ {n}
        /\ SetBackend(r.backend)
        /\ queues' = [queues EXCEPT ![c] = r.queue]
        /\ last' = Step("finished", c, exists, Len(queues[c]),
                        PlaybackState(c), FALSE, n.file_path)
        /\ UNCHANGED pending

----------------------------------------------------------------------------
\* The steps of the command handlers for chat c.
CommandFor(c) ==
    \/ PlayNoArgs(c)
    \/ PlayNoResult(c)
    \/ \E s \in Songs : PlayEnqueue(c, s)
    \/ \E e \in BOOLEAN : PlayStart(c, e)
    \/ PlayStartError(c)
    \/ PlayRollback(c)
    \/ PlayRollbackError(c)
    \/ Pause(c)
    \/ Resume(c)
    \/ Stop(c)
    \/ Skip(c)
    \/ \E e \in BOOLEAN : SkipStart(c, e)
    \/ SkipStartError(c)

Command == \E c \in Chats : CommandFor(c)

\* The playback threads.
LoopEnds == \E t \in DOMAIN threads : ThreadLoopEnds(t)

PopActive == \E t \in DOMAIN threads : ThreadPopActive(t)

\* The program: the completion of a playback thread reaches nobody.
PopPaused == \E t \in DOMAIN threads : ThreadPopPaused(t, FALSE)

Next == Command \/ LoopEnds \/ PopActive \/ PopPaused

Spec == Init /\ [][Next]_vars

\* The program with the completions delivered to _handle_song_finished.
PopPausedNotify == \E t \in DOMAIN threads : ThreadPopPaused(t, TRUE)

Finished ==
    \E n \in notifications, e \in BOOLEAN : HandleSongFinished(n, e)

NextFinished ==
    Command \/ LoopEnds \/ PopActive \/ PopPausedNotify \/ Finished

SpecFinished == Init /\ [][NextFinished]_vars

----------------------------------------------------------------------------
\* The program serving two chats: the one QueueManager and the one
\* MusicPlayer hold the state of both (queue_manager.py:17,
\* music_player.py:22-25).  Chat 1 receives every command, from the start;
\* chat 2 is in a state that its own commands have left it in.

TwoChats == {1, 2}

\* The backend right after construction (music_player.py:22-25).
NewBackend ==
    [active |-> {}, paused |-> <<>>, threads |-> EmptyBag,
     started |-> [c \in TwoChats |-> NoFile]]

\* Chat 2 before the first command for chat 1: nothing has happened in it
\* yet, or /play has started a song in it and it is Playing, or a /pause
\* has followed and it is Paused.
Bystander ==
    LET song == Song("A")
        playing == play_audio(NewBackend, 2, song.file_path, TRUE)
    IN  {[queue |-> <<>>, backend |-> NewBackend],
         [queue |-> add_to_queue(<<>>, song).queue, backend |-> playing],
         [queue |-> add_to_queue(<<>>, song).queue,
          backend |-> pause_audio(playing, 2)]}

InitTwo ==
    \E b \in Bystander :
        /\ queues = [c \in TwoChats |-> IF c = 2 THEN b.queue ELSE <<>>]
        /\ active_streams = b.backend.active
        /\ paused_streams = b.backend.paused
        /\ threads = b.backend.threads
        /\ pending = {}
        /\ started = b.backend.started
        /\ notifications = {}
        /\ last = [op |-> "init", chat |-> 0, ok |-> TRUE, pos |-> 0,
                   was |-> "Idle", stale |-> FALSE, file |-> NoFile,
                   after_stop |-> "no"]

\* The commands are those of chat 1; the playback threads are those of both
\* chats.
NextTwo == Command \/ LoopEnds \/ PopActive \/ PopPaused

SpecTwo == InitTwo /\ [][NextTwo]_vars

----------------------------------------------------------------------------
\* QueueManager on its own: its methods called in any order with any
\* arguments.  move_song and shuffle_queue have no caller in bot.py; the
\* player is never touched here.

\* The positions a caller may pass to move_song.
Positions == -1 .. MAX_QUEUE_SIZE + 1

NoMove == [chat |-> 0, from |-> 0, to |-> 0, before |-> <<>>]

\* Observation of a QueueManager call: what it was given, what it returned
\* and the list it started from; moved: when the call before it was a
\* move_song that returned True, that call's arguments and the list it
\* started from, and NoMove otherwise.
QueueStep(op, c, ok, pos, song, from, to, preserve) ==
    [op |-> op, chat |-> c, ok |-> ok, pos |-> pos, song |-> song,
     from |-> from, to |-> to, preserve |-> preserve, before |-> queues[c],
     moved |-> IF last.op = "move_song" /\ last.ok
               THEN [chat |-> last.chat, from |-> last.from, to |-> last.to,
                     before |-> last.before]
               ELSE NoMove]

PlayerUntouched ==
    UNCHANGED <<active_streams, paused_streams, threads, pending, started,
                notifications>>

AddToQueue(c, song_info) ==
    LET r == add_to_queue(queues[c], song_info) IN
    /\ queues' = [queues EXCEPT ![c] = r.queue]
    /\ last' = QueueStep("add_to_queue", c, r.position /= -1, r.position,
                         song_info, 0, 0, FALSE)
    /\ PlayerUntouched

RemoveFromQueue(c, song_info) ==
    LET r == remove_from_queue(queues[c], song_info) IN
    /\ queues' = [queues EXCEPT ![c] = r.queue]
    /\ last' = QueueStep("remove_from_queue", c, r.removed, 0, song_info,
                         0, 0, FALSE)
    /\ PlayerUntouched

MoveSong(c, from_position, to_position) ==
    LET r == move_song(queues[c], from_position, to_position) IN
    /\ queues' = [queues EXCEPT ![c] = r.queue]
    /\ last' = QueueStep("move_song", c, r.moved, 0, NoSong, from_position,
                         to_position, FALSE)
    /\ PlayerUntouched

ShuffleQueue(c, preserve_current) ==
    \E r \in shuffle_queue(queues[c], preserve_current) :
        /\ queues' = [queues EXCEPT ![c] = r.queue]
        /\ last' = QueueStep("shuffle_queue", c, r.shuffled, 0, NoSong, 0, 0,
                             preserve_current)
        /\ PlayerUntouched

ClearQueue(c) ==
    /\ queues' = [queues EXCEPT ![c] = clear_queue(queues[c])]
    /\ last' = QueueStep("clear_queue", c, TRUE, 0, NoSong, 0, 0, FALSE)
    /\ PlayerUntouched

Add == \E c \in Chats, s \in Songs : AddToQueue(c, s)

Remove == \E c \in Chats, s \in Songs : RemoveFromQueue(c, s)

MoveCall == \E c \in Chats, a \in Positions, b \in Positions : MoveSong(c, a, b)

Shuffle == \E c \in Chats, p \in BOOLEAN : ShuffleQueue(c, p)

Clear == \E c \in Chats : ClearQueue(c)

NextQueue == Add \/ Remove \/ MoveCall \/ Shuffle \/ Clear

SpecQueue == Init /\ [][NextQueue]_vars

----------------------------------------------------------------------------
\* Claims.

Active(c) == PlaybackState(c) \in {"Playing", "Paused"}

Idle(c) == PlaybackState(c) = "Idle"

\* C1: an enqueue returns position 1 exactly when the queue was empty before
\* it; the play_audio call that follows such an enqueue, when it succeeds,
\* starts exactly one playback thread for the enqueued file, leaves the chat
\* Playing and ends the handler; an enqueue at any other position starts
\* nothing and ends the handler at once.
C1_FirstEnqueueStartsOnce ==
    [][\A c \in Chats :
        /\ (last'.op = "play_enqueue" /\ last'.chat = c) =>
              /\ (last'.pos = 1) <=> (queues[c] = <<>>)
              /\ last'.pos /= 1 =>
                    /\ pending' = {}
                    /\ threads' = threads
                    /\ started' = started
                    /\ active_streams' = active_streams
        /\ (last'.op = "play_start" /\ last'.chat = c /\ last'.ok) =>
              /\ c \in active_streams'
              /\ ~paused_get(paused_streams', c)
              /\ started'[c] = queues[c][1].file_path
              /\ BagCardinality(threads') = BagCardinality(threads) + 1
              /\ pending' = {}
      ]_vars

\* C1 witness: a second track has just been enqueued at position 2 while the
\* first one, started by its own enqueue, is playing on a single thread.
C1_Witness ==
    \E c \in Chats :
        /\ last.op = "play_enqueue" /\ last.chat = c /\ last.pos = 2
        /\ last.was = "Playing"
        /\ BagCardinality(threads) = 1
        /\ started[c] = queues[c][1].file_path

\* C2: when the playback thread of the current start completes (its cleanup
\* block has run), the finished track is removed from the queue and the new
\* head, if any, is playing; with no new head the chat is Idle.
C2_CompletionAdvances ==
    [][\A c \in Chats :
        (last'.op = "finish" /\ last'.chat = c /\ ~last'.stale
            /\ queues[c] /= <<>>) =>
              /\ queues'[c] = Tail(queues[c])
              /\ queues'[c] /= <<>> =>
                    /\ c \in active_streams'
                    /\ ~paused_get(paused_streams', c)
              /\ queues'[c] = <<>> => c \notin active_streams'
      ]_vars

\* C3: a chat that is Playing or Paused has a non-empty queue.
C3_ActiveHasQueue ==
    \A c \in Chats : Active(c) => queues[c] /= <<>>

\* C3 witness: /skip has removed the head and started the next track while
\* the thread of the skipped track is still alive.
C3_Witness ==
    \E c \in Chats :
        /\ last.op = "skip_start" /\ last.chat = c /\ last.ok
        /\ Active(c) /\ queues[c] /= <<>>
        /\ \E t \in DOMAIN threads : t.chat = c /\ t.stale

\* C4: with no command in flight, an Idle chat has an empty queue.
C4_IdleHasEmptyQueue ==
    pending = {} => \A c \in Chats : Idle(c) => queues[c] = <<>>

\* C5: with no command in flight, the file last started for a chat that is
\* Playing or Paused is the file of the head of its queue.
C5_StartedIsHead ==
    pending = {} =>
        \A c \in Chats :
            Active(c) =>
                /\ queues[c] /= <<>>
                /\ started[c] = queues[c][1].file_path

\* C6: /skip issued while Playing or Paused removes the head; without a next
\* track the chat is Idle with an empty queue; with one, once its play_audio
\* call has returned, the chat is Playing the file of the new head.
C6_SkipAdvances ==
    [][\A c \in Chats :
        /\ (last'.op = "skip" /\ last'.chat = c
                /\ last'.was \in {"Playing", "Paused"}) =>
              /\ queues'[c] = Tail(queues[c])
              /\ queues'[c] = <<>> => c \notin active_streams'
        /\ (last'.op = "skip_start" /\ last'.chat = c
                /\ last'.was \in {"Playing", "Paused"}) =>
              /\ c \in active_streams'
              /\ ~paused_get(paused_streams', c)
              /\ started'[c] = queues'[c][1].file_path
      ]_vars

\* C7: a finished notification about a track that /skip has just skipped
\* (the next track has been started and the head of the queue is no longer
\* the finished track) leaves the queue as it is: the track after the
\* skipped one stays in the queue.
C7_SkipAndFinishedAdvanceOnce ==
    [][\A c \in Chats :
        (/\ last.op = "skip_start" /\ last.chat = c /\ last.ok
         /\ last'.op = "finished" /\ last'.chat = c
         /\ queues[c] /= <<>>
         /\ queues[c][1].file_path /= last'.file) =>
              queues'[c] = queues[c]
      ]_vars

\* C8: the cleanup of a playback thread whose start has since been stopped or
\* replaced changes neither flag of its chat.
C8_StaleThreadChangesNothing ==
    [][\A c \in Chats :
        (last'.op \in {"finish_active", "finish"} /\ last'.chat = c
            /\ last'.stale) =>
              /\ (c \in active_streams') = (c \in active_streams)
              /\ paused_get(paused_streams', c) = paused_get(paused_streams, c)
      ]_vars

\* C9: a successful /pause leaves the chat Paused, and a finished
\* notification handled while the chat is Paused changes neither the queue
\* nor the playback state.
C9_FinishedWhilePausedIgnored ==
    [][\A c \in Chats :
        /\ (last'.op = "pause" /\ last'.chat = c /\ last'.ok) =>
              (c \in active_streams' /\ paused_get(paused_streams', c))
        /\ (last'.op = "finished" /\ last'.chat = c
                /\ last'.was = "Paused") =>
              /\ queues'[c] = queues[c]
              /\ c \in active_streams'
              /\ paused_get(paused_streams', c)
      ]_vars

\* C10: /stop leaves the chat Idle with an empty queue, and a finished
\* notification handled right after a /stop issued while Playing or Paused
\* leaves it Idle with an empty queue and starts no playback.
C10_StopThenFinished ==
    [][\A c \in Chats :
        /\ (last'.op = "stop" /\ last'.chat = c) =>
              /\ c \notin active_streams'
              /\ queues'[c] = <<>>
        /\ (last'.op = "finished" /\ last'.chat = c
                /\ last'.after_stop \in {"Playing", "Paused"}) =>
              /\ c \notin active_streams'
              /\ queues'[c] = <<>>
              /\ threads' = threads
              /\ started' = started
      ]_vars

\* C10 witness: a finished notification has just been handled right after a
\* /stop that interrupted a playback, whose thread is still alive.
C10_Witness ==
    \E c \in Chats :
        /\ last.op = "finished" /\ last.chat = c
        /\ last.after_stop \in {"Playing", "Paused"}
        /\ \E t \in DOMAIN threads : t.chat = c /\ t.stale

\* C11: when play_audio fails for the track that /play has just enqueued at
\* position 1, the handler ends with that track removed again: the queue is
\* empty, as it was before the command, and the chat is Idle.
C11_FailedStartRollsBack ==
    [][\A c \in Chats :
        (last'.op \in {"play_rollback", "play_rollback_error"}
            /\ last'.chat = c) =>
              /\ queues'[c] = <<>>
              /\ c \notin active_streams'
      ]_vars

\* C12: whatever QueueManager calls are made, no queue is longer than
\* MAX_QUEUE_SIZE; add_to_queue on a shorter queue appends and returns the new
\* length (the call that fills the queue included), and on a full queue it
\* returns -1 and leaves the list as it is.
C12_QueueNeverExceedsLimit ==
    [][\A c \in Chats :
        /\ Len(queues'[c]) <= MAX_QUEUE_SIZE
        /\ (last'.op = "add_to_queue" /\ last'.chat = c) =>
              IF Len(queues[c]) < MAX_QUEUE_SIZE
              THEN /\ last'.pos = Len(queues[c]) + 1
                   /\ queues'[c] = Append(queues[c], last'.song)
              ELSE /\ last'.pos = -1
                   /\ queues'[c] = queues[c]
      ]_vars

\* C12 witness: add_to_queue has just been rejected on a queue that earlier
\* calls had filled to MAX_QUEUE_SIZE.
C12_Witness ==
    \E c \in Chats :
        /\ last.op = "add_to_queue" /\ last.chat = c /\ last.pos = -1
        /\ Len(last.before) = MAX_QUEUE_SIZE
        /\ queues[c] = last.before

\* C13: a /play whose add_to_queue returned -1 does not end with the message
\* that the track was added to the queue.
C13_FullQueueReported ==
    [][\A c \in Chats :
        (last'.op = "play_enqueue" /\ last'.chat = c /\ last'.pos = -1) =>
              play_reply(last'.pos, FALSE) /= "added_to_queue"
      ]_vars

\* C14: after remove_from_queue(chat, t) has returned True, get_current_song
\* does not return a song with the title and url of t.
C14_RemovedIsNotCurrent ==
    [][\A c \in Chats :
        (last'.op = "remove_from_queue" /\ last'.chat = c /\ last'.ok) =>
              ~SameSong(get_current_song(queues'[c]), last'.song)
      ]_vars

\* How many entries of a list have the title and url of a song.
Occurrences(q, song_info) ==
    Cardinality({i \in DOMAIN q : SameSong(q[i], song_info)})

\* C14, amended: after remove_from_queue(chat, t) has returned True on a
\* queue that held exactly one entry with the title and url of t,
\* get_current_song does not return a song with the title and url of t,
\* wherever in the queue t was.
C14_RemovedUniqueIsNotCurrent ==
    [][\A c \in Chats :
        (/\ last'.op = "remove_from_queue" /\ last'.chat = c /\ last'.ok
         /\ Occurrences(queues[c], last'.song) = 1) =>
              ~SameSong(get_current_song(queues'[c]), last'.song)
      ]_vars

\* C14 witness: the only entry with the identity of t, which was not the
\* head, has just been removed and the head is still the other song.
C14_Witness ==
    \E c \in Chats :
        /\ last.op = "remove_from_queue" /\ last.chat = c /\ last.ok
        /\ Occurrences(last.before, last.song) = 1
        /\ ~SameSong(last.before[1], last.song)
        /\ queues[c] = <<last.before[1]>>

\* The 1-based positions of a list.
Valid(q, position) == 1 <= position /\ position <= Len(q)

\* A move_song(b, a) that directly follows a move_song(a, b) which returned
\* True, with a /= b.
MovedBack(c) ==
    /\ last.op = "move_song" /\ last.chat = c
    /\ last.moved.chat = c
    /\ last.moved.from /= last.moved.to
    /\ last.from = last.moved.to
    /\ last.to = last.moved.from

\* C15: move_song(a, b) followed by move_song(b, a), for valid positions
\* a /= b, returns True and leaves the queue in the order it had before the
\* first of the two calls.
C15_MoveRoundTrip ==
    \A c \in Chats :
        MovedBack(c) => (last.ok /\ queues[c] = last.moved.before)

\* C15 witness: the second move has just undone a first one that had really
\* changed the order.
C15_Witness ==
    \E c \in Chats :
        /\ MovedBack(c) /\ last.ok
        /\ last.before /= last.moved.before
        /\ queues[c] = last.moved.before

\* C16: move_song with a position outside the list (0, a negative one, one
\* past the end, any position on an empty list) returns False and leaves the
\* list as it is.
C16_MoveOutOfRange ==
    [][\A c \in Chats :
        (/\ last'.op = "move_song" /\ last'.chat = c
         /\ ~(Valid(queues[c], last'.from) /\ Valid(queues[c], last'.to))) =>
              /\ ~last'.ok
              /\ queues'[c] = queues[c]
      ]_vars

\* C16 witness: a move from a position below 1 to a position of a non-empty
\* list has just been refused.
C16_Witness ==
    \E c \in Chats :
        /\ last.op = "move_song" /\ last.chat = c /\ ~last.ok
        /\ last.from < 1 /\ Valid(last.before, last.to)
        /\ queues[c] = last.before

\* The songs of a list with their multiplicities.
SongBag(q) ==
    [s \in {q[i] : i \in DOMAIN q} |->
        Cardinality({i \in DOMAIN q : q[i] = s})]

C19_SkipWhileIdleRejected ==
    [][\A c \in Chats :
        (last'.op = "skip" /\ last'.chat = c /\ PlaybackState(c) = "Idle") =>
              /\ queues'[c] = queues[c]
              /\ pending' = {}
              /\ active_streams' = active_streams
      ]_vars

\* C20: /stop issued while the chat is Idle leaves the queue and the
\* playback state as they were and stop_audio returns True; a /stop that
\* directly follows a /stop changes nothing.
C20_StopWhileIdleNoOp ==
    [][\A c \in Chats :
        /\ (last'.op = "stop" /\ last'.chat = c
                /\ PlaybackState(c) = "Idle") =>
              /\ last'.ok
              /\ queues'[c] = queues[c]
              /\ PlaybackState(c)' = "Idle"
        /\ (last.op = "stop" /\ last.chat = c
                /\ last'.op = "stop" /\ last'.chat = c) =>
              /\ queues' = queues
              /\ active_streams' = active_streams
              /\ paused_streams' = paused_streams
      ]_vars

\* The steps with which a command handler begins.
FirstSteps ==
    {"play_usage", "play_none", "play_enqueue", "pause", "resume", "stop",
     "skip"}

\* The playback threads of a chat that no stop_audio or play_audio has
\* overtaken.
CurrentThreads(th, c) ==
    {t \in DOMAIN th : t.chat = c /\ ~t.stale}

C22_PlayErrorLeavesConsistent ==
    [][\A c \in Chats :
        (last'.op \in {"play_error", "play_rollback_error"}
            /\ last'.chat = c) =>
              ~(queues'[c] /= <<>> /\ c \notin active_streams')
      ]_vars

\* C23: a step of a command or of a playback thread of chat c leaves the
\* queue and the two flags of every other chat d as they were.
C23_OtherChatsUntouched ==
    [][\A c \in TwoChats : \A d \in TwoChats \ {c} :
        last'.chat = c =>
              /\ queues'[d] = queues[d]
              /\ (d \in active_streams') = (d \in active_streams)
              /\ (d \in DOMAIN paused_streams') = (d \in DOMAIN paused_streams)
              /\ paused_get(paused_streams', d) = paused_get(paused_streams, d)
      ]_vars

\* C23 witness: /stop has just ended a playback of chat 1 while chat 2 is
\* Paused on the song in its queue.
C23_Witness ==
    /\ last.op = "stop" /\ last.chat = 1 /\ last.was = "Playing"
    /\ queues[2] /= <<>>
    /\ is_paused(2)

\* C24: a successful play_audio leaves exactly one playback thread in charge
\* of the chat, and a thread that a stop_audio or a later play_audio has
\* overtaken returns when it leaves its loop: it never goes on to the
\* cleanup of the chat's flags.
C24_PreviousPlaybackTornDown ==
    [][\A c \in Chats :
        /\ (last'.op \in {"play_start", "skip_start"} /\ last'.chat = c
                /\ last'.ok) =>
              Cardinality(CurrentThreads(threads', c)) = 1
        /\ (last'.op = "loop_ends" /\ last'.chat = c /\ last'.stale) =>
              ~last'.ok
      ]_vars

\* C25: a /play whose add_to_queue appends while the chat is Playing or
\* Paused puts the track at the tail, keeps the tracks already queued in
\* their order, returns the new length, starts nothing and leaves both flags
\* as they were.
C25_EnqueueWhileActiveAppends ==
    [][\A c \in Chats :
        (/\ last'.op = "play_enqueue" /\ last'.chat = c
         /\ PlaybackState(c) \in {"Playing", "Paused"}
         /\ last'.pos /= -1) =>
              /\ Len(queues'[c]) = Len(queues[c]) + 1
              /\ SubSeq(queues'[c], 1, Len(queues[c])) = queues[c]
              /\ queues'[c][Len(queues'[c])] \in Songs
              /\ last'.pos = Len(queues'[c])
              /\ active_streams' = active_streams
              /\ paused_streams' = paused_streams
              /\ threads' = threads
              /\ pending' = {}
      ]_vars

\* C25 witness: a second track has just been appended behind the one the
\* chat is Paused on.
C25_Witness ==
    \E c \in Chats :
        /\ last.op = "play_enqueue" /\ last.chat = c /\ last.pos = 2
        /\ last.was = "Paused"
        /\ PlaybackState(c) = "Paused"
        /\ Len(queues[c]) = 2

\* C26: a /play whose search_and_download returns None changes neither the
\* queues nor the flags nor the playback threads and ends at once.
C26_NoResultChangesNothing ==
    [][\A c \in Chats :
        (last'.op = "play_none" /\ last'.chat = c) =>
              /\ queues' = queues
              /\ active_streams' = active_streams
              /\ paused_streams' = paused_streams
              /\ threads' = threads
              /\ pending' = {}
      ]_vars

\* C26 witness: a /play without a result has just ended for a chat that is
\* Playing the head of its queue.
C26_Witness ==
    \E c \in Chats :
        /\ last.op = "play_none" /\ last.chat = c
        /\ last.was = "Playing" /\ PlaybackState(c) = "Playing"
        /\ queues[c] /= <<>>

\* C27: the chat's active flag is cleared by the cleanup of a playback
\* thread exactly when that thread belongs to a start that no stop_audio and
\* no later play_audio has overtaken: such a thread clears it, and the
\* thread of a stopped start clears nothing.
C27_OneCompletionPerStart ==
    [][\A c \in Chats :
        (last'.op = "finish_active" /\ last'.chat = c) =>
              (last'.ok <=> ~last'.stale)
      ]_vars

\* C28: right after a /resume that returned True, the playback thread of
\* the start that was paused is still there to play the rest and complete.
C28_ResumedPlaybackProgresses ==
    [][\A c \in Chats :
        (last'.op = "resume" /\ last'.chat = c /\ last'.ok) =>
              CurrentThreads(threads', c) /= {}
      ]_vars

\* C29: for every chat, the paused flag is true only if the chat is in
\* active_streams; is_playing and is_paused are never both true, and both
\* are false exactly when the chat is Idle.
C29_PausedOnlyIfActive ==
    \A c \in Chats :
        /\ paused_get(paused_streams, c) => c \in active_streams
        /\ ~(is_playing(c) /\ is_paused(c))
        /\ (~is_playing(c) /\ ~is_paused(c)) <=> Idle(c)

Suffixes(q) == {SubSeq(q, k + 1, Len(q)) : k \in 0..Len(q)}

\* C31: every step of a command, of a playback thread or of the handling of
\* a completion leaves a queue as it was, appends one song behind the songs
\* already queued, or takes songs away from the front only.  The queue is
\* therefore always in the order of the enqueues and its head is the track
\* enqueued earliest among those still queued: no track becomes the head
\* while a track enqueued before it is in the queue.
C31_HeadsInEnqueueOrder ==
    [][\A c \in Chats :
        \/ queues'[c] \in Suffixes(queues[c])
        \/ /\ last'.op = "play_enqueue"
           /\ \E s \in Songs : queues'[c] = Append(queues[c], s)
      ]_vars

\* C31 witness: /skip has just made the track enqueued second the head,
\* after the track enqueued first, a different one, had been started.
C31_Witness ==
    \E c \in Chats :
        /\ last.op = "skip" /\ last.chat = c /\ last.ok /\ last.pos = 2
        /\ Len(queues[c]) = 1
        /\ started[c] /= NoFile
        /\ started[c] /= queues[c][1].file_path

====
